---- MODULE Spec2Model ----
(***************************************************************************)
(* A model of the `strategies` crate: the bounded history (trait Memory   *)
(* over a VecDeque), the two probabilistic generators (RandomBoolean,     *)
(* RandomMove) and the move domain (Move, Opposite, Round).               *)
(*                                                                         *)
(* Three specifications share the variables:                               *)
(*   Spec        one history, driven by remember / last / last_n           *)
(*   SpecRandom  construction and querying of the two generators           *)
(*   SpecMove    Round::of and Opposite::opposite                          *)
(***************************************************************************)
EXTENDS Integers, Sequences, FiniteSets, TLC

VARIABLES
    memory,   \* the VecDeque behind get_memory(): [buf, cap]
    cap0,     \* ghost: capacity() of the deque when the history was created
    log,      \* ghost: every value passed to remember, in call order
    pre,      \* ghost: the deque as it was before the latest call
    call,     \* ghost: the latest call on the history, [op, arg]
    ret,      \* the Option<T> the latest last / last_n returned
    gen,      \* the generator the latest constructor produced, or its panic
    ctor,     \* ghost: the latest constructor call, [op, args]
    draw,     \* the value the random source produced for the latest get()
    out,      \* what the latest get() returned
    round,    \* a Round built by Round::of
    applied   \* ghost: the calls of opposite made so far, [arg, res] each

vars == <<memory, cap0, log, pre, call, ret, gen, ctor, draw, out, round, applied>>
memVars == <<memory, cap0, log, pre, call, ret>>
randVars == <<gen, ctor, draw, out>>
moveVars == <<round, applied>>

---------------------------------------------------------------------------
(* Bounds of the model *)

MaxCap == 2         \* capacities 0..MaxCap at construction
MaxVal == 3         \* remembered values are 1..MaxVal
MaxRemember == 5    \* remember calls per behaviour
MaxIndex == 4       \* last_n is called with 0..MaxIndex
MaxApply == 3       \* opposite calls per behaviour

Values == 1..MaxVal

---------------------------------------------------------------------------
(* Option<T> *)

None == [some |-> FALSE]
Some(v) == [some |-> TRUE, val |-> v]

---------------------------------------------------------------------------
(* std::collections::VecDeque<T>, as far as Memory uses it.  T is a plain *)
(* Copy value of 2..1024 bytes (a Round, say), for which the first        *)
(* allocation of an empty deque holds MinNonZeroCap elements.             *)

MinNonZeroCap == 4

Max(a, b) == IF a >= b THEN a ELSE b

capacity(m) == m.cap

len(m) == Len(m.buf)

\* pop_front: drops the oldest element; on an empty deque it returns None
\* and changes nothing.  (PopBackMutant: the newest element dropped instead.)
PopBackMutant(m) == IF m.buf = <<>> THEN m
                    ELSE [m EXCEPT !.buf = SubSeq(@, 1, Len(@) - 1)]
pop_front(m) == IF m.buf = <<>> THEN m ELSE [m EXCEPT !.buf = Tail(@)]

\* The amortised growth of a full deque (RawVec::grow_amortized with one
\* additional element).
grow(m) == [m EXCEPT !.cap = Max(MinNonZeroCap, Max(2 * @, @ + 1))]

\* push_back: grows the deque when it is full, then appends.
push_back(m, data) ==
    LET g == IF len(m) = capacity(m) THEN grow(m) ELSE m
    IN  [g EXCEPT !.buf = Append(@, data)]

\* back: the newest element.  (FrontMutant: the oldest instead.)
FrontMutant(m) == IF m.buf = <<>> THEN None ELSE Some(m.buf[1])
back(m) == IF m.buf = <<>> THEN None ELSE Some(m.buf[Len(m.buf)])

\* get(n): the element at index n, 0-based from the front.
\* (GetFromBackMutant: counted from the newest element instead.)
GetFromBackMutant(m, n) == IF n < Len(m.buf) THEN Some(m.buf[Len(m.buf) - n]) ELSE None
get(m, n) == IF n < Len(m.buf) THEN Some(m.buf[n + 1]) ELSE None

---------------------------------------------------------------------------
(* trait Memory<T> *)

remember(m, data) ==
    push_back(IF capacity(m) = len(m) THEN pop_front(m) ELSE m, data)

last(m) == back(m)

last_n(m, n) == get(m, n)

---------------------------------------------------------------------------
(* Spec: one history.  The implementor of get_memory supplies an empty    *)
(* deque whose capacity() is the capacity chosen at construction.         *)

MemIdle ==
    /\ memory = [buf |-> <<>>, cap |-> 0]
    /\ cap0 = 0
    /\ log = <<>>
    /\ pre = [buf |-> <<>>, cap |-> 0]
    /\ call = [op |-> "new", arg |-> 0]
    /\ ret = None

RandIdle ==
    /\ gen = [kind |-> "none"]
    /\ ctor = [op |-> "none", args |-> <<>>]
    /\ draw = None
    /\ out = None

MoveIdle ==
    /\ round = [my_move |-> "X", opponent_move |-> "X"]
    /\ applied = <<>>

Init ==
    /\ \E c \in 0..MaxCap :
          /\ memory = [buf |-> <<>>, cap |-> c]
          /\ cap0 = c
          /\ pre = [buf |-> <<>>, cap |-> c]
          /\ call = [op |-> "new", arg |-> c]
    /\ log = <<>>
    /\ ret = None
    /\ RandIdle
    /\ MoveIdle

Remember(data) ==
    /\ Len(log) < MaxRemember
    /\ memory' = remember(memory, data)
    /\ log' = Append(log, data)
    /\ pre' = memory
    /\ call' = [op |-> "remember", arg |-> data]
    /\ ret' = None
    /\ UNCHANGED <<cap0, randVars, moveVars>>

Last ==
    /\ ret' = last(memory)
    /\ pre' = memory
    /\ call' = [op |-> "last", arg |-> 0]
    /\ UNCHANGED <<memory, cap0, log, randVars, moveVars>>

LastN(n) ==
    /\ ret' = last_n(memory, n)
    /\ pre' = memory
    /\ call' = [op |-> "last_n", arg |-> n]
    /\ UNCHANGED <<memory, cap0, log, randVars, moveVars>>

Next ==
    \/ \E data \in Values : Remember(data)
    \/ Last
    \/ \E n \in 0..MaxIndex : LastN(n)

Spec == Init /\ [][Next]_vars

---------------------------------------------------------------------------
(* f32.  A finite value is held as an integer count of 2^-25, so that 1.0  *)
(* is 2^25; only counts that are f32 values are used: any count up to     *)
(* 2^24, even counts up to 2^25, multiples of 4 up to 2^26.  NaN is apart. *)

F32(n) == [nan |-> FALSE, v |-> n]
NaN == [nan |-> TRUE, v |-> 0]

Zero == F32(0)
Tiny == F32(1)                  \* 2^-25
Third == F32(11184811)          \* 1f32 / 3f32 = 0x3EAAAAAB
Half == F32(2^24)               \* 0.5
HalfNext == F32(2^24 + 2)       \* the f32 after 0.5 (0.50000006)
Point6 == F32(20132660)         \* 0.6f32 = 0x3F19999A
OnePrev == F32(2^25 - 2)        \* the f32 before 1.0
One == F32(2^25)                \* 1.0
OneNext == F32(2^25 + 4)        \* the f32 after 1.0
Two == F32(2^26)                \* 2.0
NegTiny == F32(-1)              \* -2^-25
NegHalf == F32(-(2^24))         \* -0.5

\* Comparisons: false as soon as one side is NaN.
F32Lt(a, b) == ~a.nan /\ ~b.nan /\ a.v < b.v
F32Le(a, b) == ~a.nan /\ ~b.nan /\ a.v <= b.v

\* The spacing of f32 values around a non-negative count s.
Quantum(s) == IF s <= 2^24 THEN 1 ELSE IF s <= 2^25 THEN 2 ELSE 4

\* Round to nearest, ties to the even significand.
RoundToNearestEven(s) ==
    LET q  == Quantum(s)
        lo == s - (s % q)
    IN  IF 2 * (s % q) < q THEN lo
        ELSE IF 2 * (s % q) > q THEN lo + q
        ELSE IF (lo \div q) % 2 = 0 THEN lo ELSE lo + q

\* a + b for operands in [0.0, 1.0], the only ones the code adds.
F32Add(a, b) == F32(RoundToNearestEven(a.v + b.v))

\* (0.0..=1.0).contains(&p)
contains_unit(p) == F32Le(Zero, p) /\ F32Le(p, One)

---------------------------------------------------------------------------
(* enum Move, trait Opposite, struct Round *)

Move == {"X", "Y", "Z"}

\* opposite.  (OppositeZMutant: Z sent to X.)
OppositeZMutant(m) == IF m = "X" THEN "Y" ELSE IF m = "Y" THEN "X" ELSE "X"
opposite(m) == IF m = "X" THEN "Y" ELSE IF m = "Y" THEN "X" ELSE "Z"

Round_of(my_move, opponent_move) ==
    [my_move |-> my_move, opponent_move |-> opponent_move]

---------------------------------------------------------------------------
(* RandomBoolean and RandomMove.  A failed assert! unwinds to the caller:  *)
(* the constructor yields no instance, modelled as a panic with the        *)
(* assertion's message.  The Xoshiro256 state is left out: what it yields  *)
(* for range(0f32..1f32) is the input u of get.                            *)

Panic(msg) == [kind |-> "panic", msg |-> msg]

RandomBoolean_new(probability) ==
    IF ~contains_unit(probability)
    THEN Panic("Probability must be between 0.0 and 1.0")
    ELSE [kind |-> "RandomBoolean", probability |-> probability]

\* get.  (RandomBooleanGetLeMutant: <= in place of <.)
RandomBooleanGetLeMutant(self, random_value) == F32Le(random_value, self.probability)
RandomBoolean_get(self, random_value) == F32Lt(random_value, self.probability)

\* new: the three assertions in order.  (RandomMoveNewStrictSumMutant: the
\* combined probability required to be < 1.0.)
RandomMoveNewStrictSumMutant(prob_x, prob_y) ==
    IF ~contains_unit(prob_x)
    THEN Panic("Probability of X must be between 0.0 and 1.0")
    ELSE IF ~contains_unit(prob_y)
    THEN Panic("Probability of Y must be between 0.0 and 1.0")
    ELSE IF ~F32Lt(F32Add(prob_x, prob_y), One)
    THEN Panic("Combined probability of X and Y cannot exceed 1.0")
    ELSE [kind |-> "RandomMove", prob_x |-> prob_x, prob_y |-> prob_y]
RandomMove_new(prob_x, prob_y) ==
    IF ~contains_unit(prob_x)
    THEN Panic("Probability of X must be between 0.0 and 1.0")
    ELSE IF ~contains_unit(prob_y)
    THEN Panic("Probability of Y must be between 0.0 and 1.0")
    ELSE IF ~F32Le(F32Add(prob_x, prob_y), One)
    THEN Panic("Combined probability of X and Y cannot exceed 1.0")
    ELSE [kind |-> "RandomMove", prob_x |-> prob_x, prob_y |-> prob_y]

\* get.  (RandomMoveGetLeMutant: <= in place of < at both boundaries.)
RandomMoveGetLeMutant(self, random_value) ==
    IF F32Le(random_value, self.prob_x) THEN "X"
    ELSE IF F32Le(random_value, F32Add(self.prob_x, self.prob_y)) THEN "Y"
    ELSE "Z"
RandomMove_get(self, random_value) ==
    IF F32Lt(random_value, self.prob_x) THEN "X"
    ELSE IF F32Lt(random_value, F32Add(self.prob_x, self.prob_y)) THEN "Y"
    ELSE "Z"

RandomMove_default == RandomMove_new(Third, Third)

---------------------------------------------------------------------------
(* SpecRandom: the generators.  Probabilities are drawn from f32 values   *)
(* inside, on the edges of and outside [0.0, 1.0]; u from [0.0, 1.0).      *)

Probs == {NaN, NegHalf, NegTiny, Zero, Tiny, Third, Half, HalfNext, Point6,
          OnePrev, One, OneNext, Two}

Draws == {Zero, Tiny, Third, Half, HalfNext, Point6, OnePrev}

InitRandom == MemIdle /\ RandIdle /\ MoveIdle

NewBoolean(p) ==
    /\ gen' = RandomBoolean_new(p)
    /\ ctor' = [op |-> "RandomBoolean::new", args |-> <<p>>]
    /\ draw' = None
    /\ out' = None
    /\ UNCHANGED <<memVars, moveVars>>

NewMove(px, py) ==
    /\ gen' = RandomMove_new(px, py)
    /\ ctor' = [op |-> "RandomMove::new", args |-> <<px, py>>]
    /\ draw' = None
    /\ out' = None
    /\ UNCHANGED <<memVars, moveVars>>

DefaultMove ==
    /\ gen' = RandomMove_default
    /\ ctor' = [op |-> "RandomMove::default", args |-> <<>>]
    /\ draw' = None
    /\ out' = None
    /\ UNCHANGED <<memVars, moveVars>>

BooleanGet(u) ==
    /\ gen.kind = "RandomBoolean"
    /\ draw' = Some(u)
    /\ out' = Some(RandomBoolean_get(gen, u))
    /\ UNCHANGED <<gen, ctor, memVars, moveVars>>

MoveGet(u) ==
    /\ gen.kind = "RandomMove"
    /\ draw' = Some(u)
    /\ out' = Some(RandomMove_get(gen, u))
    /\ UNCHANGED <<gen, ctor, memVars, moveVars>>

NextRandom ==
    \/ \E p \in Probs : NewBoolean(p)
    \/ \E px, py \in Probs : NewMove(px, py)
    \/ DefaultMove
    \/ \E u \in Draws : BooleanGet(u)
    \/ \E u \in Draws : MoveGet(u)

SpecRandom == InitRandom /\ [][NextRandom]_vars

---------------------------------------------------------------------------
(* SpecMove: rounds are built from any two moves, and opposite is applied *)
(* to a field of the round or to its own latest result.                    *)

InitMove == MemIdle /\ RandIdle /\ MoveIdle

RoundOf(m1, m2) ==
    /\ round' = Round_of(m1, m2)
    /\ UNCHANGED <<applied, memVars, randVars>>

OppositeOfMine ==
    /\ Len(applied) < MaxApply
    /\ applied' = Append(applied, [arg |-> round.my_move,
                                   res |-> opposite(round.my_move)])
    /\ UNCHANGED <<round, memVars, randVars>>

OppositeOfOpponent ==
    /\ Len(applied) < MaxApply
    /\ applied' = Append(applied, [arg |-> round.opponent_move,
                                   res |-> opposite(round.opponent_move)])
    /\ UNCHANGED <<round, memVars, randVars>>

OppositeAgain ==
    /\ applied # <<>>
    /\ Len(applied) < MaxApply
    /\ applied' = Append(applied, [arg |-> applied[Len(applied)].res,
                                   res |-> opposite(applied[Len(applied)].res)])
    /\ UNCHANGED <<round, memVars, randVars>>

NextMove ==
    \/ \E m1, m2 \in Move : RoundOf(m1, m2)
    \/ OppositeOfMine
    \/ OppositeOfOpponent
    \/ OppositeAgain

SpecMove == InitMove /\ [][NextMove]_vars

---------------------------------------------------------------------------
(* Claims about the history, checked under Spec *)

Range(s) == {s[i] : i \in 1..Len(s)}

LastK(s, k) == SubSeq(s, Len(s) - k + 1, Len(s))

\* C1: with a capacity C > 0, once more than C values have been remembered
\* the retained sequence is exactly the last C values of the call log, oldest
\* first (whether or not the values are distinct), and a remember on a full
\* history drops the oldest element and no other.
BoundedEviction ==
    /\ (cap0 > 0 /\ Len(log) > cap0) => memory.buf = LastK(log, cap0)
    /\ (cap0 > 0 /\ call.op = "remember" /\ Len(pre.buf) = cap0)
          => memory.buf = Append(Tail(pre.buf), call.arg)

\* C1 witness: capacity 2, three distinct values remembered (k = 1), the
\* first one evicted.
BoundedEvictionWitness ==
    /\ cap0 = 2
    /\ Len(log) = 3
    /\ Cardinality(Range(log)) = 3
    /\ call.op = "remember"
    /\ Len(pre.buf) = 2
    /\ memory.buf = <<log[2], log[3]>>

\* C2: the number of retained elements never exceeds the capacity chosen at
\* construction, for every capacity C >= 0.
LengthWithinCapacity == Len(memory.buf) <= cap0

\* C3: a history of capacity 0 stays empty whatever is remembered, and its
\* last() returns none.
ZeroCapacityStaysEmpty ==
    cap0 = 0 => /\ memory.buf = <<>>
                /\ call.op = "last" => ret = None

LastIsMostRecent ==
    call.op = "last" =>
        /\ ret = IF log = <<>> THEN None ELSE Some(log[Len(log)])
        /\ memory.buf = <<>> => ret = None
        /\ memory = pre

\* C5 witness: last() after an eviction, the newest value differing from the
\* oldest retained one.
LastWitness ==
    /\ call.op = "last"
    /\ Len(log) > cap0
    /\ Len(memory.buf) >= 2
    /\ memory.buf[1] # log[Len(log)]
    /\ ret = Some(log[Len(log)])

\* C10: the capacity remember compares the length against is the one chosen at
\* construction, for every capacity C >= 0.
CapacityImmutable == capacity(memory) = cap0

---------------------------------------------------------------------------
(* Claims about the generators, checked under SpecRandom.  Sums of two     *)
(* probabilities are the f32 sums the program computes.                    *)

OutsideUnit(p) == p.nan \/ p.v < 0 \/ p.v > 2^25

SumExceedsOne(px, py) == F32Add(px, py).v > 2^25

\* C6: RandomBoolean::new(p) fails exactly when p is outside [0.0, 1.0];
\* RandomMove::new(px, py) fails exactly when px or py is outside [0.0, 1.0]
\* or px + py > 1.0; a failed construction leaves no instance to query, a
\* successful one holds the probabilities it was given.
ConfigurationRejection ==
    /\ ctor.op = "RandomBoolean::new" =>
          LET p == ctor.args[1]
          IN  /\ (gen.kind = "panic") <=> OutsideUnit(p)
              /\ ~OutsideUnit(p) =>
                    gen = [kind |-> "RandomBoolean", probability |-> p]
    /\ ctor.op = "RandomMove::new" =>
          LET px == ctor.args[1]
              py == ctor.args[2]
              bad == OutsideUnit(px) \/ OutsideUnit(py) \/ SumExceedsOne(px, py)
          IN  /\ (gen.kind = "panic") <=> bad
              /\ ~bad => gen = [kind |-> "RandomMove", prob_x |-> px, prob_y |-> py]
    /\ gen.kind = "panic" => (draw = None /\ out = None)

\* C6 witness: RandomMove::new(0.6, 0.6) panicked on the combined probability.
ConfigurationRejectionWitness ==
    /\ ctor = [op |-> "RandomMove::new", args |-> <<Point6, Point6>>]
    /\ gen = Panic("Combined probability of X and Y cannot exceed 1.0")

\* C7: RandomMove::get() returns X if u < prob_x, else Y if u < prob_x + prob_y,
\* else Z, both comparisons strict; (0, 0) always gives Z, (1, 0) always gives
\* X, and prob_x = 0 never gives X.
MoveSampling ==
    (gen.kind = "RandomMove" /\ draw.some) =>
        LET u == draw.val
            px == gen.prob_x
            py == gen.prob_y
        IN  /\ out = Some(IF u.v < px.v THEN "X"
                          ELSE IF u.v < F32Add(px, py).v THEN "Y"
                          ELSE "Z")
            /\ (px = Zero /\ py = Zero) => out = Some("Z")
            /\ (px = One /\ py = Zero) => out = Some("X")
            /\ px = Zero => out # Some("X")

\* C7 witness: u equal to prob_x = 0.5 with prob_y = 0.5: not X but Y.
MoveSamplingWitness ==
    /\ gen = [kind |-> "RandomMove", prob_x |-> Half, prob_y |-> Half]
    /\ draw = Some(Half)
    /\ out = Some("Y")

\* C8: RandomBoolean::get() returns exactly u < probability; probability 0.0
\* never gives true, 1.0 always gives true, and the stored probability is the
\* one given at construction after every query.
BooleanSampling ==
    (gen.kind = "RandomBoolean" /\ draw.some) =>
        /\ out = Some(draw.val.v < gen.probability.v)
        /\ gen.probability = Zero => out = Some(FALSE)
        /\ gen.probability = One => out = Some(TRUE)
        /\ gen.probability = ctor.args[1]

\* C8 witness: u equal to the probability 0.5: false.
BooleanSamplingWitness ==
    /\ gen = [kind |-> "RandomBoolean", probability |-> Half]
    /\ draw = Some(Half)
    /\ out = Some(FALSE)

---------------------------------------------------------------------------
(* Claims about the move domain, checked under SpecMove *)

\* C9: opposite maps X to Y, Y to X and Z to Z, always yields a move, undoes
\* itself when applied to its own result, and is a permutation of the moves.
OppositeInvolution ==
    /\ \A i \in 1..Len(applied) :
          /\ applied[i].res \in Move
          /\ applied[i].arg = "X" => applied[i].res = "Y"
          /\ applied[i].arg = "Y" => applied[i].res = "X"
          /\ applied[i].arg = "Z" => applied[i].res = "Z"
    /\ \A i \in 1..(Len(applied) - 1) :
          applied[i + 1].arg = applied[i].res => applied[i + 1].res = applied[i].arg
    /\ {opposite(m) : m \in Move} = Move

\* C9 witness: opposite applied to X and then to the result, back at X.
OppositeInvolutionWitness ==
    /\ Len(applied) = 2
    /\ applied[1] = [arg |-> "X", res |-> "Y"]
    /\ applied[2] = [arg |-> "Y", res |-> "X"]

====
